---- MODULE Spec2Model ----
(***************************************************************************)
(* Verification model of the staging-auth-bridge plugin.                   *)
(*                                                                         *)
(*   BridgeSpec     the postMessage handler of StudioAuthBridge            *)
(*                  (src/src/StudioAuthBridge.tsx, lines 72-235)           *)
(*   ThrottleSpec   one throttleAsync instance (src/src/utils/throttle.ts) *)
(*   HookSpec       useStudioAuth: validateSession = throttleAsync over    *)
(*                  validateSessionInternal (src/unnamed/part_003, 222-307)*)
(*   ValidatorSpec  one invocation of validateStagingAccess, with the      *)
(*                  platform's fetch (src/unnamed/part_005,                *)
(*                  src/src/platform/vercel.ts, src/src/platform/index.ts) *)
(*   ConfigSpec     the configuration module (src/src/config/index.ts,     *)
(*                  lines 1-358)                                           *)
(*   ConsumerSpec   the configuration module and a caller that writes to   *)
(*                  the object it was handed                               *)
(*   RolesSpec      calls of RoleUtils.normalize, getHighestPriority and   *)
(*                  extractFromUser (src/unnamed/part_010)                 *)
(*   AutoSpec       the useEffect of StudioAuthBridge calling              *)
(*                  handleAutoValidation over the hook                     *)
(*                                                                         *)
(* Each specification moves the variables of its own component and keeps   *)
(* the other components at rest.                                           *)
(***************************************************************************)
EXTENDS Integers, Sequences, FiniteSets, TLC

VARIABLES
    \* ---- StudioAuthBridge ----
    allowedOrigins,     \* config.security.allowedOrigins
    enablePostMessage,  \* config.features.enablePostMessage
    validNonces,        \* validNonces.current : Set<string>
    registrar,          \* history: <<nonce, origin>> pairs accepted by handleNonceRegistration
    event,              \* the MessageEvent handled last
    posted,             \* postMessage calls made while handling `event`
    steps,              \* the checks and parses run while handling `event`, in order
    \* ---- throttleAsync ----
    now,                \* Date.now()
    lastCall,           \* let lastCall
    currentPromise,     \* let currentPromise (0 is null, otherwise a promise id)
    promises,           \* the promises func.apply has returned, by id
    timers,             \* pending setTimeout callbacks (their due times)
    calls,              \* history: every call of throttledAsync
    \* ---- useStudioAuth ----
    currentUser,        \* useCurrentUser()
    isValidating,       \* useState(false)
    lastValidation,     \* useState(null): 0 is null, p is the result of invocation p
    error,              \* useState(null): the message of the Error, or NoError
    runs,               \* the invocations of validateSessionInternal, by promise id
    renders,            \* how often currentUser has been replaced
    \* ---- validateStagingAccess ----
    platform,           \* process.env.VERCEL / process.env.NETLIFY
    rateLimitRetryMs,   \* config.security.rateLimitRetryMs
    userRoles,          \* the userRoles argument
    vpc,                \* where the invocation stands
    attempt,            \* vercelFetch: let attempt
    attempts,           \* history: requests sent to the endpoint
    abortTimer,         \* the armed abort timer's delay in ms, 0 when none is armed
    aborted,            \* controller.signal.aborted
    answer,             \* history: the endpoint's latest answer
    response,           \* the Response the fetch function returned
    outcome,            \* what the invocation returned or threw
    processEnv,         \* process.env.NODE_ENV, process.env.SANITY_STUDIO_DEBUG
    logs,               \* the records handed to logger.* and console.*, in order
    \* ---- config ----
    env,                \* process.env
    edge,               \* the values the Edge Config store holds
    edgeRead,           \* how reading the store ends
    defaults,           \* const defaults
    cachedConfig,       \* let cachedConfig
    configInitialized,  \* let configInitialized
    returned,           \* history: the last value handed out, and by what
    held,               \* whether the object handed out last is the one cachedConfig refers to
    built,              \* history: the builders that have run
    \* ---- RoleUtils ----
    roleCall,           \* the function called and its argument
    roleResults,        \* history: what the calls made so far returned or threw
    \* ---- StudioAuthBridge, automatic validation ----
    autoValidation,     \* config.features.autoValidation
    effectDue,          \* a dependency of the useEffect has changed since it last ran
    \* ---- the components that read the configuration ----
    consumed            \* per component, the configuration object it works with

bridgeVars == <<allowedOrigins, enablePostMessage, validNonces, registrar, event, posted, steps>>
throttleVars == <<now, lastCall, currentPromise, promises, timers, calls>>
hookVars == <<currentUser, isValidating, lastValidation, error, runs, renders>>
validatorVars == <<platform, rateLimitRetryMs, userRoles, vpc, attempt, attempts, abortTimer,
                   aborted, answer, response, outcome, processEnv, logs>>
configVars == <<env, edge, edgeRead, defaults, cachedConfig, configInitialized, returned, held,
               built>>
rolesVars == <<roleCall, roleResults>>
autoVars == <<autoValidation, effectDue>>
componentVars == <<consumed>>
vars == <<bridgeVars, throttleVars, hookVars, validatorVars, configVars, rolesVars, autoVars,
         componentVars>>

\* what an action of one component leaves alone
outsideBridge ==
    <<throttleVars, hookVars, validatorVars, configVars, rolesVars, autoVars, componentVars>>
outsideThrottle ==
    <<bridgeVars, hookVars, validatorVars, configVars, rolesVars, autoVars, componentVars>>
outsideAuto == <<bridgeVars, validatorVars, configVars, rolesVars, componentVars>>
outsideHook == <<outsideAuto, autoVars>>
outsideValidator ==
    <<bridgeVars, throttleVars, hookVars, configVars, rolesVars, autoVars, componentVars>>
outsideConfig ==
    <<bridgeVars, throttleVars, hookVars, validatorVars, rolesVars, autoVars, componentVars>>
outsideComponents == <<bridgeVars, throttleVars, hookVars, validatorVars, rolesVars, autoVars>>
outsideRoles ==
    <<bridgeVars, throttleVars, hookVars, validatorVars, configVars, autoVars, componentVars>>

(***************************************************************************)
(* JavaScript values of message fields.  A field is a string, is missing   *)
(* (undefined), or holds a value that is not a string (a number, an        *)
(* object).                                                                *)
(***************************************************************************)
Undefined == "<undefined>"
NonString == "<non-string>"

IsString(v) == v \notin {Undefined, NonString}

\* JavaScript truthiness of a field: undefined and the empty string are falsy.
Truthy(v) == v \notin {Undefined, ""}

\* buildConfig and buildSyncConfig: isDevelopment, isDebug of the environment e
isDevelopment(e) == e.NODE_ENV = "development"
isDebug(e) == e.SANITY_STUDIO_DEBUG = "true" \/ isDevelopment(e)

(***************************************************************************)
(*                          StudioAuthBridge                               *)
(***************************************************************************)
Origins == {"https://a.example", "https://b.example", "https://c.example"}
TrustedCandidates == {"https://a.example", "https://b.example"}
\* the allow-lists the configuration may hold
AllowLists == {{}, {"https://a.example"}, TrustedCandidates}
Windows == {"w1"}
NoSource == "<null>"
NonceStrings == {"", "n1"}
CorrelationIds == {"c1"}

RegisterNonce == "register-nonce"
RequestStatus == "request-staging-auth-status"
StatusReply == "staging-auth-status"

\* event.data: the shapes an iframe can post
MessageData ==
    [type : {RegisterNonce}, nonce : NonceStrings \cup {NonString},
     origin : TrustedCandidates \cup {Undefined}, correlationId : {Undefined}]
    \cup
    [type : {RequestStatus}, nonce : NonceStrings \cup {Undefined},
     origin : {Undefined}, correlationId : CorrelationIds \cup {Undefined, NonString}]
    \cup
    [type : {"other"}, nonce : {Undefined}, origin : {Undefined}, correlationId : {Undefined}]

Events == [origin : Origins, source : Windows \cup {NoSource}, data : MessageData]

NoEvent == [origin |-> "<none>", source |-> NoSource,
            data |-> [type |-> "<none>", nonce |-> Undefined, origin |-> Undefined,
                      correlationId |-> Undefined]]

\* What the hook hands the component at the render whose closure handles the
\* message: !!currentUser?.id, !!lastValidation, isValidating.
Snapshots ==
    {[authenticated |-> FALSE, hasValidation |-> FALSE, isValidating |-> FALSE],
     [authenticated |-> TRUE, hasValidation |-> TRUE, isValidating |-> FALSE]}

isValidOrigin(origin) == origin \in allowedOrigins

isValidNonce(nonce) == (~Truthy(nonce)) \/ nonce \in validNonces

\* PostMessageNonceRegistrationSchema.parse succeeds
NonceRegistrationSchema(data) ==
    /\ data.type = RegisterNonce
    /\ IsString(data.nonce)
    /\ IsString(data.origin)

\* The return value of handleNonceRegistration; when TRUE the nonce was added.
BadRegistration_NoOriginCheck(data, eventOrigin) == NonceRegistrationSchema(data)

handleNonceRegistration(data, eventOrigin) ==
    /\ NonceRegistrationSchema(data)
    /\ data.origin = eventOrigin

\* PostMessageAuthRequestSchema = z.object({type: literal, correlationId: string?});
\* keys the schema does not name (nonce) are not validated.
isPostMessageAuthRequest(data) ==
    /\ data.type = RequestStatus
    /\ (data.correlationId = Undefined \/ IsString(data.correlationId))

\* handleAuthRequest goes past the CSRF check
NonceCheckPasses(data) == ~(Truthy(data.nonce) /\ ~isValidNonce(data.nonce))

\* PostMessageAuthResponseSchema.parse({...}): the schema keeps its own keys
AuthResponse(data, snap) ==
    [type |-> StatusReply,
     authenticated |-> snap.authenticated,
     hasValidation |-> snap.hasValidation,
     isValidating |-> snap.isValidating,
     correlationId |-> data.correlationId]

\* (event.source as Window).postMessage(response, event.origin)
BadReply_Broadcast(ev, snap) ==
    [win |-> ev.source, targetOrigin |-> "*", data |-> AuthResponse(ev.data, snap)]

ReplyTo(ev, snap) ==
    [win |-> ev.source, targetOrigin |-> ev.origin, data |-> AuthResponse(ev.data, snap)]

\* the postMessage calls handleAuthRequest makes for ev
BadAuthRequest_SwitchIgnored(ev, snap) ==
    IF ~isPostMessageAuthRequest(ev.data) THEN <<>>
    ELSE IF ~NonceCheckPasses(ev.data) THEN <<>>
    ELSE IF ev.source # NoSource THEN <<ReplyTo(ev, snap)>>
    ELSE <<>>

handleAuthRequest(ev, snap) ==
    IF ~enablePostMessage \/ ~isPostMessageAuthRequest(ev.data) THEN <<>>
    ELSE IF ~NonceCheckPasses(ev.data) THEN <<>>
    ELSE IF ev.source # NoSource THEN <<ReplyTo(ev, snap)>>
    ELSE <<>>

\* the checks handleAuthRequest runs for ev, in order
AuthRequestSteps(ev) ==
    <<"handleAuthRequest">>
    \o (IF enablePostMessage THEN <<"isPostMessageAuthRequest">> ELSE <<>>)
    \o (IF enablePostMessage /\ isPostMessageAuthRequest(ev.data) /\ Truthy(ev.data.nonce)
        THEN <<"isValidNonce">> ELSE <<>>)

\* window 'message' listener
BadHandle_NoOriginCheck(ev, snap) ==
    /\ event' = ev
    /\ IF handleNonceRegistration(ev.data, ev.origin)
       THEN /\ validNonces' = validNonces \cup {ev.data.nonce}
            /\ registrar' = registrar \cup {<<ev.data.nonce, ev.origin>>}
            /\ posted' = <<>>
            /\ steps' = <<"handleNonceRegistration">>
       ELSE /\ posted' = handleAuthRequest(ev, snap)
            /\ steps' = <<"handleNonceRegistration">> \o AuthRequestSteps(ev)
            /\ UNCHANGED <<validNonces, registrar>>

handleMessage(ev, snap) ==
    /\ event' = ev
    /\ IF ~isValidOrigin(ev.origin)
       THEN /\ posted' = <<>>
            /\ steps' = <<"isValidOrigin">>
            /\ UNCHANGED <<validNonces, registrar>>
       ELSE IF handleNonceRegistration(ev.data, ev.origin)
       THEN /\ validNonces' = validNonces \cup {ev.data.nonce}
            /\ registrar' = registrar \cup {<<ev.data.nonce, ev.origin>>}
            /\ posted' = <<>>
            /\ steps' = <<"isValidOrigin", "handleNonceRegistration">>
       ELSE /\ posted' = handleAuthRequest(ev, snap)
            /\ steps' = <<"isValidOrigin", "handleNonceRegistration">> \o AuthRequestSteps(ev)
            /\ UNCHANGED <<validNonces, registrar>>

Message ==
    /\ \E ev \in Events, snap \in Snapshots : handleMessage(ev, snap)
    /\ UNCHANGED <<allowedOrigins, enablePostMessage, outsideBridge>>

BridgeIdle ==
    /\ validNonces = {}
    /\ registrar = {}
    /\ event = NoEvent
    /\ posted = <<>>
    /\ steps = <<>>

BridgeConfigured ==
    /\ allowedOrigins \in AllowLists
    /\ enablePostMessage \in BOOLEAN
    /\ BridgeIdle


(***************************************************************************)
(*                             throttleAsync                               *)
(***************************************************************************)
Delay == 2       \* the delay argument, in clock ticks
MaxTime == 5     \* the clock stops here
MaxCalls == 3    \* calls of throttledAsync in one run

\* a promise is pending or has settled; the value or error it settled with is
\* its own (the result of invocation p is told apart from that of any other)
Pending == "pending"
Outcomes == {"fulfilled", "rejected"}

\* if (currentPromise && timeSinceLastCall < delay) return currentPromise
BadWindow_PromiseOnly(t) == currentPromise # 0

InWindow(t) == currentPromise # 0 /\ t - lastCall < Delay

\* setTimeout(() => { currentPromise = null }, delay), set at time t
BadClear_OnSettle(t) == t

ClearDue(t) == t + Delay

\* one call of throttledAsync(...args)
BadCall_StartNotRecorded ==
    /\ Len(calls) < MaxCalls
    /\ IF InWindow(now)
       THEN /\ calls' = Append(calls, [at |-> now, since |-> now - lastCall,
                                       promise |-> currentPromise, invoked |-> FALSE])
            /\ UNCHANGED <<lastCall, currentPromise, promises>>
       ELSE /\ lastCall' = lastCall
            /\ promises' = Append(promises, [start |-> now, outcome |-> Pending])
            /\ currentPromise' = Len(promises) + 1
            /\ calls' = Append(calls, [at |-> now, since |-> now - lastCall,
                                       promise |-> Len(promises) + 1, invoked |-> TRUE])
    /\ UNCHANGED <<now, timers, outsideThrottle>>

throttledAsync ==
    /\ Len(calls) < MaxCalls
    /\ IF InWindow(now)
       THEN /\ calls' = Append(calls, [at |-> now, since |-> now - lastCall,
                                       promise |-> currentPromise, invoked |-> FALSE])
            /\ UNCHANGED <<lastCall, currentPromise, promises>>
       ELSE /\ lastCall' = now
            /\ promises' = Append(promises, [start |-> now, outcome |-> Pending])
            /\ currentPromise' = Len(promises) + 1
            /\ calls' = Append(calls, [at |-> now, since |-> now - lastCall,
                                       promise |-> Len(promises) + 1, invoked |-> TRUE])
    /\ UNCHANGED <<now, timers, outsideThrottle>>

\* the promise func returned settles; its finally callback runs in the same turn
Settle(p, o) ==
    /\ promises[p].outcome = Pending
    /\ promises' = [promises EXCEPT ![p].outcome = o]
    /\ timers' = IF currentPromise = p
                 THEN timers \cup {[due |-> ClearDue(now), of |-> p]}
                 ELSE timers
    /\ UNCHANGED <<now, lastCall, currentPromise, calls, outsideThrottle>>

\* a setTimeout callback runs, at its due time or later
TimerFires(t) ==
    /\ now >= t.due
    /\ currentPromise' = 0
    /\ timers' = timers \ {t}
    /\ UNCHANGED <<now, lastCall, promises, calls, outsideThrottle>>

Tick ==
    /\ now < MaxTime
    /\ now' = now + 1
    /\ UNCHANGED <<lastCall, currentPromise, promises, timers, calls, outsideThrottle>>

ThrottleIdle ==
    /\ now = 0
    /\ lastCall = 0
    /\ currentPromise = 0
    /\ promises = <<>>
    /\ timers = {}
    /\ calls = <<>>

BridgeFixed ==
    /\ allowedOrigins = {}
    /\ enablePostMessage = TRUE
    /\ BridgeIdle

(***************************************************************************)
(*                             useStudioAuth                               *)
(*                                                                         *)
(* validateSession is throttleAsync(validateSessionInternal, 2000); the    *)
(* instance is built anew (useMemo over useCallback over [currentUser])    *)
(* whenever the currentUser object is replaced.  Delay stands for the      *)
(* 2000 ms of the hook.                                                    *)
(***************************************************************************)
MaxRenders == 1      \* replacements of the currentUser object in one run
MaxValidations == 2  \* calls of validateSession in one run

NoError == "<null>"
NoUserSession == "No user session found"
ValidationError == "<thrown by validateStagingAccess>"

\* useCurrentUser(): null, or a user object; ref is the object's identity
NullUser == [ref |-> 0, id |-> Undefined, email |-> Undefined]
Users ==
    {NullUser,
     [ref |-> 1, id |-> Undefined, email |-> Undefined],
     [ref |-> 2, id |-> "u1", email |-> Undefined],
     [ref |-> 3, id |-> "u1", email |-> "u1@example.com"]}
ValidEmails == {"u1@example.com"}

\* SanityUserSchema.parse succeeds: id a string, email absent or an e-mail address
SanityUserSchema(user) ==
    /\ user.ref # 0
    /\ IsString(user.id)
    /\ user.email = Undefined \/ user.email \in ValidEmails

\* the parsed user, or null
parseSanityUser(user) == IF SanityUserSchema(user) THEN user ELSE NullUser

\* the test of line 241 passes: !!validatedUser?.id
HasSession(user) == Truthy(parseSanityUser(user).id)

\* validateSessionInternal, up to the call of validateStagingAccess (line 271).
\* getSessionToken() runs to its end when called (it awaits nothing) and its
\* token is never empty, so the await of line 252 resumes in the same turn of
\* the event loop and line 255 is not reached.
BadInternal_FlagsFirst ==
    /\ isValidating' = TRUE
    /\ error' = NoError
    /\ runs' = Append(runs, [phase |-> IF HasSession(currentUser) THEN "network" ELSE "threw",
                             token |-> HasSession(currentUser),
                             request |-> HasSession(currentUser),
                             error |-> IF HasSession(currentUser) THEN NoError
                                       ELSE NoUserSession])
    /\ UNCHANGED lastValidation

validateSessionInternal ==
    IF ~HasSession(currentUser)
    THEN /\ runs' = Append(runs, [phase |-> "threw", token |-> FALSE, request |-> FALSE,
                                  error |-> NoUserSession])
         /\ UNCHANGED <<isValidating, lastValidation, error>>
    ELSE /\ isValidating' = TRUE
         /\ error' = NoError
         /\ runs' = Append(runs, [phase |-> "network", token |-> TRUE, request |-> TRUE,
                                  error |-> NoError])
         /\ UNCHANGED lastValidation

\* one call of the hook's validateSession(): throttledAsync with
\* func = validateSessionInternal.  A promise that is rejected when
\* func.apply returns has its finally callback run before anything else.
validateSessionCall ==
    /\ IF InWindow(now)
       THEN /\ calls' = Append(calls, [at |-> now, since |-> now - lastCall,
                                       promise |-> currentPromise, invoked |-> FALSE])
            /\ UNCHANGED <<lastCall, currentPromise, promises, timers, hookVars>>
       ELSE /\ lastCall' = now
            /\ validateSessionInternal
            /\ promises' = Append(promises,
                  [start |-> now,
                   outcome |-> IF runs'[Len(runs')].phase = "threw" THEN "rejected"
                               ELSE Pending])
            /\ currentPromise' = Len(promises) + 1
            /\ timers' = IF runs'[Len(runs')].phase = "threw"
                         THEN timers \cup {[due |-> ClearDue(now), of |-> Len(promises) + 1]}
                         ELSE timers
            /\ calls' = Append(calls, [at |-> now, since |-> now - lastCall,
                                       promise |-> Len(promises) + 1, invoked |-> TRUE])
            /\ UNCHANGED <<currentUser, renders>>
    /\ UNCHANGED <<now, outsideAuto>>

validateSession ==
    /\ Len(calls) < MaxValidations
    /\ validateSessionCall
    /\ UNCHANGED autoVars

\* validateStagingAccess resolves or rejects: lines 273-281, then the finally
\* callback of throttledAsync
validationSettled(p, o) ==
    /\ runs[p].phase = "network"
    /\ runs' = [runs EXCEPT ![p].phase = "done",
                            ![p].error = IF o = "rejected" THEN ValidationError ELSE NoError]
    /\ IF o = "fulfilled"
       THEN lastValidation' = p /\ UNCHANGED error
       ELSE error' = ValidationError /\ UNCHANGED lastValidation
    /\ isValidating' = FALSE
    /\ promises' = [promises EXCEPT ![p].outcome = o]
    /\ timers' = IF currentPromise = p
                 THEN timers \cup {[due |-> ClearDue(now), of |-> p]}
                 ELSE timers
    /\ UNCHANGED <<now, lastCall, currentPromise, calls, currentUser, renders, outsideAuto>>

ValidationSettles(p, o) == validationSettled(p, o) /\ UNCHANGED autoVars

\* the component renders with another currentUser object: useCallback and
\* useMemo yield a new throttleAsync instance, whose lastCall is 0 and whose
\* currentPromise is null; the timers of the instance left behind write to
\* that instance's own variable
Rerender(u) ==
    /\ renders < MaxRenders
    /\ u.ref # currentUser.ref
    /\ currentUser' = u
    /\ renders' = renders + 1
    /\ lastCall' = 0
    /\ currentPromise' = 0
    /\ timers' = {}
    /\ UNCHANGED <<now, promises, calls, isValidating, lastValidation, error, runs,
                   outsideHook>>

clearValidation ==
    /\ lastValidation # 0 \/ error # NoError
    /\ lastValidation' = 0
    /\ error' = NoError
    /\ UNCHANGED <<currentUser, isValidating, runs, renders, throttleVars, outsideHook>>

HookIdle ==
    /\ currentUser = NullUser
    /\ isValidating = FALSE
    /\ lastValidation = 0
    /\ error = NoError
    /\ runs = <<>>
    /\ renders = 0

HookMounted ==
    /\ currentUser \in Users
    /\ isValidating = FALSE
    /\ lastValidation = 0
    /\ error = NoError
    /\ runs = <<>>
    /\ renders = 0

(***************************************************************************)
(*                 StudioAuthBridge: automatic validation                  *)
(*                                                                         *)
(* The useEffect of the component (lines 200-231) runs after the first     *)
(* render and after every render in which one of its dependencies has      *)
(* changed; isValidating and lastValidation are among them.  Its body      *)
(* calls handleAutoValidation().                                           *)
(***************************************************************************)
MaxAutoCalls == 4    \* calls of validateSession by the effect in one run

\* handleAutoValidation returns at line 161
AutoValidationSkipped == ~autoValidation \/ ~Truthy(currentUser.id) \/ lastValidation # 0

\* the effect runs: handleAutoValidation(); a state change made by the call
\* (setIsValidating(true), setError(null)) renders the component again
handleAutoValidation ==
    /\ effectDue
    /\ Len(calls) < MaxAutoCalls
    /\ IF AutoValidationSkipped
       THEN /\ effectDue' = FALSE
            /\ UNCHANGED <<throttleVars, hookVars, outsideAuto>>
       ELSE /\ validateSessionCall
            /\ effectDue' = (isValidating' # isValidating \/ error' # error)
    /\ UNCHANGED autoValidation

\* React commits a render and runs its effects before the next task of the
\* event loop (a response, a timer) is served: nothing else happens, and no
\* time passes, while the effect is due.

\* the attempt in flight ends: setLastValidation or setError, and
\* setIsValidating(false), render the component again
AttemptEnds(p, o) ==
    /\ ~effectDue
    /\ validationSettled(p, o)
    /\ effectDue' = TRUE
    /\ UNCHANGED autoValidation

AutoTimerFires(t) == ~effectDue /\ TimerFires(t)
AutoTick == ~effectDue /\ Tick

AutoIdle ==
    /\ autoValidation = TRUE
    /\ effectDue = FALSE

\* the component has rendered for the first time
AutoMounted ==
    /\ autoValidation \in BOOLEAN
    /\ effectDue = TRUE


(***************************************************************************)
(*                         validateStagingAccess                           *)
(*                                                                         *)
(* One invocation: the fetch function is vercel.fetch (vercelFetch) on     *)
(* Vercel and compatFetch elsewhere; the fetch options come from           *)
(* getFetchOptions.  Messages are the parts of the template literal, in    *)
(* order.                                                                  *)
(***************************************************************************)
Platforms == {"vercel", "netlify", "other"}
RoleArgs == {Undefined, "<string[]>"}   \* the userRoles argument: omitted, or an array
RateLimitWindows == {60000, 1500}       \* config.security.rateLimitRetryMs

maxRetries == 3
VercelTimeoutMs == 20000
NetlifyTimeoutMs == 8000

NoHeader == "<null>"
RetryAfters == {NoHeader, "", "30"}

\* a response body: text that is not JSON, a JSON value that is not an
\* object, or a JSON object with these keys (extra is a key the schema does
\* not name)
NoBody == [kind |-> "text", authorized |-> Undefined, role |-> Undefined,
           error |-> Undefined, correlationId |-> Undefined, timestamp |-> Undefined,
           extra |-> Undefined]
Bodies ==
    {NoBody, [NoBody EXCEPT !.kind = "value"]}
    \cup [kind : {"object"}, authorized : {"true", "false", Undefined, NonString},
          role : {Undefined, "editor", NonString}, error : {Undefined},
          correlationId : {Undefined}, timestamp : {Undefined}, extra : {Undefined, "x"}]

statusText(status) ==
    CASE status = 200 -> "OK"
      [] status = 403 -> "Forbidden"
      [] status = 404 -> "Not Found"
      [] status = 429 -> "Too Many Requests"
      [] status = 503 -> "Service Unavailable"
      [] OTHER -> ""

\* the answers of the endpoint
Responses ==
    [status : {200}, retryAfter : {NoHeader}, body : Bodies]
    \cup [status : {429}, retryAfter : RetryAfters, body : {NoBody}]
    \cup [status : {403, 404, 503}, retryAfter : {NoHeader}, body : {NoBody}]

NoResponse == [status |-> 0, retryAfter |-> NoHeader, body |-> NoBody]

\* response.ok
ok(r) == r.status >= 200 /\ r.status <= 299

\* ValidationResponseSchema.parse succeeds
ValidationResponseSchema(body) ==
    /\ body.kind = "object"
    /\ body.authorized \in {"true", "false"}
    /\ body.role = Undefined \/ IsString(body.role)
    /\ body.error = Undefined \/ IsString(body.error)
    /\ body.correlationId = Undefined \/ IsString(body.correlationId)
    /\ body.timestamp = Undefined \/ IsString(body.timestamp)

NullResult == [authorized |-> "<null>", role |-> Undefined, error |-> Undefined,
               correlationId |-> Undefined, timestamp |-> Undefined]

\* the parsed object (z.object keeps the keys of the schema), or null
parseValidationResponse(body) ==
    IF ValidationResponseSchema(body)
    THEN [authorized |-> body.authorized, role |-> body.role, error |-> body.error,
          correlationId |-> body.correlationId, timestamp |-> body.timestamp]
    ELSE NullResult

PendingOutcome == [kind |-> "pending", message |-> <<>>, result |-> NullResult]
Returned(result) == [kind |-> "returned", message |-> <<>>, result |-> result]
Threw(message) == [kind |-> "threw", message |-> message, result |-> NullResult]

RolesTypeError == <<"TypeError: Cannot read properties of undefined (reading 'length')">>
NetworkFailure == <<"TypeError: Failed to fetch">>
JsonSyntaxError == <<"SyntaxError: Unexpected token in JSON">>
SignalTimeout == <<"TimeoutError: The operation was aborted due to timeout">>
VercelTimeout == <<"Request timeout on Vercel Edge Runtime">>
MaxRetriesExceeded == <<"Max retries exceeded">>
InvalidFormat == <<"Invalid response format from validation API">>
AccessForbidden == <<"Access forbidden. This domain is not authorized.">>

\* lines 146-148: retryAfter || Math.floor(config.security.rateLimitRetryMs / 1000)
retrySeconds(retryAfter, ms) ==
    IF retryAfter \notin {NoHeader, ""} THEN retryAfter ELSE ToString(ms \div 1000)

\* lines 145-155: the error thrown for a response that is not ok
BadError_AlwaysGeneric(r, ms) == <<"Validation failed: ", statusText(r.status)>>

HttpError(r, ms) ==
    IF r.status = 429
    THEN <<"Rate limit exceeded. Please try again in ", retrySeconds(r.retryAfter, ms),
           " seconds.">>
    ELSE IF r.status = 403 THEN AccessForbidden
    ELSE <<"Validation failed: ", statusText(r.status)>>

\* lines 134-173: what validateStagingAccess does with the response r
Finish(r) ==
    IF ~ok(r) THEN Threw(HttpError(r, rateLimitRetryMs))
    ELSE IF r.body.kind = "text" THEN Threw(JsonSyntaxError)
    ELSE IF parseValidationResponse(r.body) = NullResult THEN Threw(InvalidFormat)
    ELSE Returned(parseValidationResponse(r.body))

\* the abort timer in force during the fetch: vercelFetch passes its own
\* controller.signal (line 170) in place of the signal of getFetchOptions
TimeoutFor(p) ==
    IF p = "vercel" THEN VercelTimeoutMs
    ELSE IF p = "netlify" THEN NetlifyTimeoutMs
    ELSE 0

\* vercelFetch line 173: the response is handed back
BadHandsBack_Any(r) == TRUE

HandsBack(r) == ok(r) \/ r.status < 500

\* vercelFetch: attempt a is the last one of the loop
BadLast_Never(a) == FALSE

LastAttempt(a) == a = maxRetries - 1

\* ---- log records: the action, and the kinds of data the record holds ----
ProcessEnvs ==
    {e \in [NODE_ENV : {"development", "production"}, SANITY_STUDIO_DEBUG : {Undefined, "true"}] :
        e.SANITY_STUDIO_DEBUG = "true" => e.NODE_ENV = "production"}

isProduction == processEnv.NODE_ENV = "production"
\* config.features.debugMode, as both builders set it
debugMode == isDebug(processEnv)

LogRecord(action, holds) == [action |-> action, holds |-> holds]

\* Debug.log: console.log when debug mode is enabled
DebugLog(records) == IF debugMode THEN records ELSE <<>>

\* useStudioAuth, validateSessionInternal: 'User validation started'
ValidationStartedLog ==
    LogRecord("User validation started", {"hasUserId", "rolesType", "rolesCount"})
\* useStudioAuth, validateSessionInternal: 'Validation prepared'
ValidationPreparedLog ==
    LogRecord("Validation prepared", {"roleCount", "hasName", "hasEmail"})

\* the debug logging of extractFromUser for a roles array
ExtractDebugLogs ==
    <<LogRecord("Input user.roles:", {"roleNames"}),
      LogRecord("Type of user.roles:", {"rolesType"}),
      LogRecord("Extracted roles:", {"roleNames"}),
      LogRecord("Unique normalized roles:", {"roleNames"})>>

\* logData, lines 93-112
StartLog ==
    LogRecord("validate_staging_access_start",
              {"apiUrlPath", "tokenLength", "roleCount", "hasUserInfo", "environment"}
                  \cup (IF isProduction THEN {} ELSE {"apiUrlHost"})
                  \cup (IF ~isProduction /\ debugMode
                        THEN {"currentUrl", "urlParamKeys", "roleNames"} ELSE {}))

\* lines 137-143
HttpErrorLog ==
    LogRecord("validate_staging_access_http_error",
              {"status", "statusText", "responseText", "duration"})

\* parseValidationResponse(responseData, logger) on a ZodError
ParseErrorLog == LogRecord("validation_response_parse_error", {"zodErrors", "responseData"})

\* lines 166-171
CompleteLog ==
    LogRecord("validate_staging_access_complete",
              {"authorized", "duration"} \cup (IF isProduction THEN {} ELSE {"grantedRole"}))

\* lines 175-180
ErrorLog ==
    LogRecord("validate_staging_access_error",
              {"errorMessage", "duration"} \cup (IF isProduction THEN {} ELSE {"stack"}))

\* lines 134-180: the records written while the response r is processed
FinishLogs(r) ==
    IF ~ok(r) THEN <<HttpErrorLog, ErrorLog>>
    ELSE IF r.body.kind = "text" THEN <<ErrorLog>>
    ELSE IF parseValidationResponse(r.body) = NullResult THEN <<ParseErrorLog, ErrorLog>>
    ELSE <<CompleteLog>>

\* validateSessionInternal up to the call of validateStagingAccess: the
\* user has an id, the token is generated, the roles are extracted
prepareValidation ==
    /\ vpc = "idle"
    /\ logs = <<>>
    /\ userRoles # Undefined
    /\ logs' = DebugLog(<<ValidationStartedLog>> \o ExtractDebugLogs \o <<ValidationPreparedLog>>)
    /\ UNCHANGED <<platform, rateLimitRetryMs, userRoles, vpc, attempt, attempts, abortTimer,
                   aborted, answer, response, outcome, processEnv, outsideValidator>>

\* the invocation, up to the first await of fetch
validateStagingAccess ==
    /\ vpc = "idle"
    /\ IF userRoles = Undefined
       THEN /\ vpc' = "done"
            /\ outcome' = Threw(RolesTypeError)
            /\ UNCHANGED <<attempts, abortTimer, logs>>
       ELSE /\ vpc' = "fetch"
            /\ attempts' = attempts + 1
            /\ abortTimer' = TimeoutFor(platform)
            /\ logs' = Append(logs, StartLog)
            /\ UNCHANGED outcome
    /\ UNCHANGED <<platform, rateLimitRetryMs, userRoles, attempt, aborted, answer, response,
                   processEnv, outsideValidator>>

\* the endpoint answers with r
Respond(r) ==
    /\ vpc = "fetch"
    /\ answer' = r
    /\ IF platform # "vercel" \/ HandsBack(r)
       THEN /\ response' = r
            /\ outcome' = Finish(r)
            /\ logs' = logs \o FinishLogs(r)
            /\ vpc' = "done"
            /\ abortTimer' = IF platform = "vercel" THEN 0 ELSE abortTimer
            /\ UNCHANGED attempt
       ELSE IF LastAttempt(attempt)
       THEN /\ outcome' = Threw(MaxRetriesExceeded)
            /\ logs' = Append(logs, ErrorLog)
            /\ vpc' = "done"
            /\ abortTimer' = 0
            /\ attempt' = attempt + 1
            /\ UNCHANGED response
       ELSE /\ vpc' = "sleep"
            /\ UNCHANGED <<outcome, abortTimer, attempt, response, logs>>
    /\ UNCHANGED <<platform, rateLimitRetryMs, userRoles, attempts, aborted, processEnv,
                   outsideValidator>>

\* fetch rejects with a network error
NetworkError ==
    /\ vpc = "fetch"
    /\ IF platform # "vercel" \/ LastAttempt(attempt)
       THEN /\ outcome' = Threw(NetworkFailure)
            /\ logs' = Append(logs, ErrorLog)
            /\ vpc' = "done"
            /\ abortTimer' = IF platform = "vercel" THEN 0 ELSE abortTimer
            /\ UNCHANGED <<attempt, attempts>>
       ELSE /\ attempt' = attempt + 1
            /\ attempts' = attempts + 1
            /\ UNCHANGED <<outcome, vpc, abortTimer, logs>>
    /\ UNCHANGED <<platform, rateLimitRetryMs, userRoles, aborted, answer, response,
                   processEnv, outsideValidator>>

\* vercelFetch: the backoff after a 5xx answer is over; fetch is called again,
\* and rejects at once with an AbortError if the signal is aborted
BackoffOver ==
    /\ vpc = "sleep"
    /\ attempt' = attempt + 1
    /\ IF aborted
       THEN /\ outcome' = Threw(VercelTimeout)
            /\ logs' = Append(logs, ErrorLog)
            /\ vpc' = "done"
            /\ UNCHANGED attempts
       ELSE /\ attempts' = attempts + 1
            /\ vpc' = "fetch"
            /\ UNCHANGED <<outcome, logs>>
    /\ UNCHANGED <<platform, rateLimitRetryMs, userRoles, abortTimer, aborted, answer,
                   response, processEnv, outsideValidator>>

\* the abort timer fires
Abort ==
    /\ vpc \in {"fetch", "sleep"}
    /\ abortTimer # 0
    /\ ~aborted
    /\ aborted' = TRUE
    /\ abortTimer' = 0
    /\ IF vpc = "fetch"
       THEN /\ outcome' = Threw(IF platform = "vercel" THEN VercelTimeout ELSE SignalTimeout)
            /\ logs' = Append(logs, ErrorLog)
            /\ vpc' = "done"
       ELSE UNCHANGED <<outcome, vpc, logs>>
    /\ UNCHANGED <<platform, rateLimitRetryMs, userRoles, attempt, attempts, answer, response,
                   processEnv, outsideValidator>>

ValidatorReady ==
    /\ vpc = "idle"
    /\ attempt = 0
    /\ attempts = 0
    /\ abortTimer = 0
    /\ aborted = FALSE
    /\ answer = NoResponse
    /\ response = NoResponse
    /\ outcome = PendingOutcome
    /\ logs = <<>>

ValidatorIdle ==
    /\ platform = "other"
    /\ rateLimitRetryMs = 60000
    /\ userRoles = Undefined
    /\ processEnv = [NODE_ENV |-> "production", SANITY_STUDIO_DEBUG |-> Undefined]
    /\ ValidatorReady

ValidatorCalled ==
    /\ platform \in Platforms
    /\ rateLimitRetryMs \in RateLimitWindows
    /\ userRoles \in RoleArgs
    /\ processEnv \in ProcessEnvs
    /\ ValidatorReady

(***************************************************************************)
(*                          The config module                              *)
(*                                                                         *)
(* A configuration is a top-level object whose four properties refer to    *)
(* nested objects.  A builder works on a heap with two spaces of nested    *)
(* objects, those of `defaults` and those of a clone; a configuration      *)
(* under construction says, for each section, in which space its nested    *)
(* object lives.  A number that is absent is 0 (both are falsy), a list    *)
(* that is absent is NoList, a boolean Edge Config value is "true" or      *)
(* "false".                                                                *)
(***************************************************************************)
Sections == {"urls", "security", "logging", "features"}

NoList == <<Undefined>>
NoConfig == [null |-> TRUE]

Defaults0 ==
    [urls |-> [staging |-> "https://staging.example.com",
               development |-> <<"https://localhost:3000", "https://localhost:3334",
                                 "http://localhost:3000">>],
     security |-> [tokenValidityDays |-> 7,
                   rateLimitRetryMs |-> 60000,
                   allowedOrigins |-> <<"https://staging.example.com",
                                        "https://localhost:3000",
                                        "https://localhost:3334">>,
                   cookieName |-> "staging-auth"],
     logging |-> [provider |-> "console", level |-> "info", flushInterval |-> 1000],
     features |-> [autoValidation |-> TRUE, debugMode |-> FALSE,
                   enablePostMessage |-> TRUE, showToasts |-> TRUE]]

DevOrigins == <<"http://localhost:3000", "http://localhost:3333", "http://localhost:3334">>

\* getEnvironment(): the parsed process.env (LOGFLARE: both Logflare keys are
\* set; VERCEL: process.env.VERCEL === '1'; EDGE_CONFIG: !!process.env.EDGE_CONFIG)
Envs ==
    {e \in [NODE_ENV : {"development", "production"},
            SANITY_STUDIO_DEBUG : {Undefined, "true"},
            SANITY_STUDIO_STAGING_URL : {Undefined, "https://env.example.com"},
            SANITY_STUDIO_STAGING_COOKIE_NAME : {Undefined, "env-cookie"},
            SANITY_STUDIO_STAGING_TOKEN_VALIDITY_DAYS : {0, 14},
            SANITY_STUDIO_STAGING_RATE_LIMIT_MS : {0, 30000},
            LOGFLARE : BOOLEAN,
            VERCEL : BOOLEAN,
            EDGE_CONFIG : BOOLEAN] :
        \* the cases that differ: the debug switch outside development,
        \* an Edge Config store on Vercel
        /\ e.SANITY_STUDIO_DEBUG = "true" => e.NODE_ENV = "production"
        /\ e.EDGE_CONFIG => e.VERCEL}

\* the values of the store under the keys buildConfig asks for; {} has none
EmptyEdge ==
    [stagingUrl |-> Undefined, allowedOrigins |-> NoList, rateLimitMs |-> 0,
     feature_autoValidation |-> Undefined, feature_debugMode |-> Undefined,
     feature_enablePostMessage |-> Undefined, feature_showToasts |-> Undefined]
FullEdge ==
    [stagingUrl |-> "https://edge.example.com",
     allowedOrigins |-> <<"https://edge.example.com">>, rateLimitMs |-> 5000,
     feature_autoValidation |-> "false", feature_debugMode |-> "true",
     feature_enablePostMessage |-> Undefined, feature_showToasts |-> Undefined]
EdgeValues ==
    [stagingUrl : {Undefined, "https://edge.example.com"},
     allowedOrigins : {NoList, <<"https://edge.example.com">>},
     rateLimitMs : {0, 5000},
     feature_autoValidation : {Undefined, "false"},
     feature_debugMode : {Undefined, "true"},
     feature_enablePostMessage : {Undefined},
     feature_showToasts : {Undefined}]

\* how the read of the store ends: getAll() resolves, the dynamic import of
\* @vercel/edge-config fails, or getAll() rejects
EdgeReads == {"values", "import fails", "getAll rejects"}

\* vercel.edgeConfig.getMultiple(keys), the store holding g
BadGetMultiple_Regardless(g, read) == g

getMultiple(g, read) == IF read = "values" THEN g ELSE EmptyEdge

\* Platform.deployment.isVercel() && vercel.edgeConfig.isAvailable()
EdgeConfigRead(e) == e.VERCEL /\ e.EDGE_CONFIG
IsBoolean(v) == v \in {"true", "false"}

\* the heap a builder starts on: the nested objects of defaults, and room
\* for those of a clone
Heap(d) == [defaults |-> d, clone |-> d]

\* deepClone(defaults): structuredClone, or a JSON round trip; defaults holds
\* strings, numbers, booleans and arrays of strings, which both reproduce
BadClone_Shallow(h) == [heap |-> h, ref |-> [s \in Sections |-> "defaults"]]

deepClone(h) ==
    [heap |-> [h EXCEPT !.clone = h.defaults], ref |-> [s \in Sections |-> "clone"]]

\* config.<section>.<field>, and the assignment to it
Read(c, section, field) == c.heap[c.ref[section]][section][field]
Write(c, section, field, v) == [c EXCEPT !.heap[c.ref[section]][section][field] = v]
WriteIf(cond, c, section, field, v) == IF cond THEN Write(c, section, field, v) ELSE c

\* the configuration object a builder returns, and defaults as the builder leaves it
Snapshot(c) == [s \in Sections |-> c.heap[c.ref[s]][s]]
Built(c) == [config |-> Snapshot(c), defaults |-> c.heap.defaults]

\* buildConfig lines 129-150
EdgeOverrides(c, g) ==
    LET c1 == WriteIf(Truthy(g.stagingUrl), c, "urls", "staging", g.stagingUrl)
        c2 == WriteIf(g.allowedOrigins # NoList, c1, "security", "allowedOrigins",
                      g.allowedOrigins)
        c3 == WriteIf(g.rateLimitMs # 0, c2, "security", "rateLimitRetryMs", g.rateLimitMs)
        c4 == WriteIf(IsBoolean(g.feature_autoValidation), c3, "features", "autoValidation",
                      g.feature_autoValidation = "true")
        c5 == WriteIf(IsBoolean(g.feature_debugMode), c4, "features", "debugMode",
                      g.feature_debugMode = "true")
        c6 == WriteIf(IsBoolean(g.feature_enablePostMessage), c5, "features",
                      "enablePostMessage", g.feature_enablePostMessage = "true")
    IN  WriteIf(IsBoolean(g.feature_showToasts), c6, "features", "showToasts",
                g.feature_showToasts = "true")

\* buildConfig lines 159-173
EnvOverrides(c, e) ==
    LET c1 == WriteIf(Truthy(e.SANITY_STUDIO_STAGING_URL), c, "urls", "staging",
                      e.SANITY_STUDIO_STAGING_URL)
        c2 == WriteIf(Truthy(e.SANITY_STUDIO_STAGING_COOKIE_NAME), c1, "security",
                      "cookieName", e.SANITY_STUDIO_STAGING_COOKIE_NAME)
        c3 == WriteIf(e.SANITY_STUDIO_STAGING_TOKEN_VALIDITY_DAYS # 0, c2, "security",
                      "tokenValidityDays", e.SANITY_STUDIO_STAGING_TOKEN_VALIDITY_DAYS)
    IN  WriteIf(e.SANITY_STUDIO_STAGING_RATE_LIMIT_MS # 0, c3, "security",
                "rateLimitRetryMs", e.SANITY_STUDIO_STAGING_RATE_LIMIT_MS)

\* buildConfig lines 176-204 (no EdgeRuntime global: Platform.runtime.isEdge() is false)
LoggingAndFlags(c, e) ==
    LET c1 == IF e.LOGFLARE THEN Write(c, "logging", "provider", "logflare")
              ELSE WriteIf(e.VERCEL, c, "logging", "provider", "edge-console")
        c2 == Write(c1, "logging", "level",
                    IF isDebug(e) THEN "debug" ELSE IF isDevelopment(e) THEN "info" ELSE "warn")
        c3 == Write(c2, "features", "debugMode", isDebug(e))
        c4 == Write(c3, "features", "showToasts", isDevelopment(e) \/ isDebug(e))
        c5 == WriteIf(e.VERCEL, c4, "logging", "flushInterval", 500)
    IN  WriteIf(isDevelopment(e), c5, "security", "allowedOrigins",
                Read(c5, "security", "allowedOrigins") \o DevOrigins)

\* buildConfig(), run on defaults d
buildConfig(d, e, g) ==
    LET c0 == deepClone(Heap(d))
        c1 == IF EdgeConfigRead(e) THEN EdgeOverrides(c0, g) ELSE c0
    IN  Built(LoggingAndFlags(EnvOverrides(c1, e), e))

\* buildSyncConfig(), run on defaults d
buildSyncConfig(d, e) ==
    LET c0 == deepClone(Heap(d))
        c1 == Write(c0, "urls", "staging",
                    IF Truthy(e.SANITY_STUDIO_STAGING_URL) THEN e.SANITY_STUDIO_STAGING_URL
                    ELSE Read(c0, "urls", "staging"))
        c2 == Write(c1, "features", "debugMode", isDebug(e))
    IN  Built(IF isDevelopment(e)
              THEN Write(Write(c2, "logging", "provider", "console"), "logging", "level",
                         IF isDebug(e) THEN "debug" ELSE "info")
              ELSE IF e.LOGFLARE
              THEN Write(Write(c2, "logging", "provider", "logflare"), "logging", "level",
                         "warn")
              ELSE c2)

\* initializeConfig resumes after `await buildConfig()` (lines 223-224)
initializeConfig ==
    /\ ~configInitialized
    /\ LET b == buildConfig(defaults, env, getMultiple(edge, edgeRead)) IN
          /\ cachedConfig' = b.config
          /\ defaults' = b.defaults
          /\ built' = [built EXCEPT !.full = b.config]
    /\ configInitialized' = TRUE
    /\ held' = IF held = "none" THEN "none" ELSE "other"
    /\ UNCHANGED <<env, edge, edgeRead, returned, outsideConfig>>

\* getConfig()
BadGet_NoFallback ==
    /\ returned' = [by |-> "getConfig", value |-> cachedConfig,
                    initialized |-> configInitialized]
    /\ held' = "cached"
    /\ UNCHANGED <<env, edge, edgeRead, defaults, cachedConfig, configInitialized, built,
                   outsideConfig>>

getConfigCall ==
    /\ IF cachedConfig # NoConfig
       THEN /\ returned' = [by |-> "getConfig", value |-> cachedConfig,
                            initialized |-> configInitialized]
            /\ UNCHANGED <<defaults, cachedConfig, built>>
       ELSE LET b == buildSyncConfig(defaults, env) IN
            /\ cachedConfig' = b.config
            /\ defaults' = b.defaults
            /\ built' = [built EXCEPT !.sync = b.config]
            /\ returned' = [by |-> "getConfig", value |-> b.config,
                            initialized |-> configInitialized]
    /\ held' = "cached"
    /\ UNCHANGED <<env, edge, edgeRead, configInitialized>>

getConfig == getConfigCall /\ UNCHANGED outsideConfig

\* getConfigAsync() resumes after `await initPromise`
getConfigAsync ==
    /\ configInitialized
    /\ IF cachedConfig # NoConfig
       THEN /\ returned' = [by |-> "getConfigAsync", value |-> cachedConfig,
                            initialized |-> TRUE]
            /\ UNCHANGED <<defaults, built>>
       ELSE LET b == buildSyncConfig(defaults, env) IN
            /\ defaults' = b.defaults
            /\ built' = [built EXCEPT !.sync = b.config]
            /\ returned' = [by |-> "getConfigAsync", value |-> b.config,
                            initialized |-> TRUE]
    /\ held' = IF cachedConfig # NoConfig THEN "cached" ELSE "other"
    /\ UNCHANGED <<env, edge, edgeRead, cachedConfig, configInitialized, outsideConfig>>

\* resetConfig()
resetConfig ==
    /\ cachedConfig # NoConfig
    /\ cachedConfig' = NoConfig
    /\ returned' = [returned EXCEPT !.by = "resetConfig"]
    /\ held' = IF held = "none" THEN "none" ELSE "other"
    /\ UNCHANGED <<env, edge, edgeRead, defaults, configInitialized, built, outsideConfig>>

\* The object getConfig() and getConfigAsync() return is an ordinary object
\* (nothing freezes it), so an assignment through the reference takes effect:
\* a caller sets config.features.enablePostMessage = false, or replaces the
\* first element of config.security.allowedOrigins.
ConsumerOrigin == "https://consumer.example.com"
Writes == {"features.enablePostMessage", "security.allowedOrigins[0]"}
Written(v, w) ==
    IF w = "features.enablePostMessage"
    THEN [v EXCEPT !.features.enablePostMessage = FALSE]
    ELSE [v EXCEPT !.security.allowedOrigins[1] = ConsumerOrigin]

consumerWrite(w) ==
    /\ returned.value # NoConfig
    /\ returned' = [returned EXCEPT !.by = "consumerWrite", !.value = Written(@, w)]
    /\ cachedConfig' = IF held = "cached" THEN Written(cachedConfig, w) ELSE cachedConfig
    /\ UNCHANGED <<env, edge, edgeRead, defaults, configInitialized, held, built, outsideConfig>>

\* the module has been loaded: initializeConfig() is awaiting buildConfig()
ConfigLoading ==
    /\ defaults = Defaults0
    /\ cachedConfig = NoConfig
    /\ configInitialized = FALSE
    /\ returned = [by |-> "none", value |-> NoConfig, initialized |-> FALSE]
    /\ held = "none"
    /\ built = [full |-> NoConfig, sync |-> NoConfig]

ConfigIdle ==
    /\ env = [NODE_ENV |-> "production", SANITY_STUDIO_DEBUG |-> Undefined,
              SANITY_STUDIO_STAGING_URL |-> Undefined,
              SANITY_STUDIO_STAGING_COOKIE_NAME |-> Undefined,
              SANITY_STUDIO_STAGING_TOKEN_VALIDITY_DAYS |-> 0,
              SANITY_STUDIO_STAGING_RATE_LIMIT_MS |-> 0,
              LOGFLARE |-> FALSE, VERCEL |-> FALSE, EDGE_CONFIG |-> FALSE]
    /\ edge = EmptyEdge
    /\ edgeRead = "values"
    /\ ConfigLoading

ConfigLoaded ==
    /\ env \in Envs
    /\ edge \in (IF EdgeConfigRead(env) THEN EdgeValues ELSE {EmptyEdge})
    \* a read that fails is a read of a store that holds every value
    /\ edgeRead \in (IF EdgeConfigRead(env) /\ edge = FullEdge THEN EdgeReads ELSE {"values"})
    /\ ConfigLoading

(***************************************************************************)
(*               The components that read the configuration                *)
(*                                                                         *)
(* The session validator reads it once, when its module is loaded          *)
(* (`const config = getConfig()` at module level); the logger once, when   *)
(* it is constructed (`private config = getConfig()`); the bridge at       *)
(* every render (`const config = getConfig()` in the component body).      *)
(***************************************************************************)
Components == {"bridge", "validator", "logger"}

\* component c reads the configuration again on a later occasion
ReadsAgain(c) == c = "bridge"

componentReads(c) ==
    /\ consumed[c] = NoConfig \/ ReadsAgain(c)
    /\ getConfigCall
    /\ consumed' = [consumed EXCEPT ![c] = returned'.value]
    /\ UNCHANGED outsideComponents

ComponentsIdle == consumed = [c \in Components |-> NoConfig]

(***************************************************************************)
(*                               RoleUtils                                 *)
(*                                                                         *)
(* A JavaScript value is a record with its type; a string carries its      *)
(* characters, so that casing, trimming and splitting are computed.  A     *)
(* thrown TypeError is the value a call ends with.                         *)
(***************************************************************************)
MaxRoles == 3        \* the longest roles list
MaxRoleCalls == 2    \* calls of extractFromUser on one user
CasedLetters == 5    \* the letters of a role name that vary in case

Str(chars) == [type |-> "string", chars |-> chars]
UndefinedValue == [type |-> "undefined"]
NullValue == [type |-> "null"]
NumberValue == [type |-> "number"]
FunctionValue(name) == [type |-> "function", name |-> name]
Arr(items) == [type |-> "array", items |-> items]
\* a role object: { name: <name>, title: ... }, or one without a name property
RoleObject(name) == [type |-> "object", hasName |-> TRUE, name |-> name]
NamelessObject == [type |-> "object", hasName |-> FALSE, name |-> UndefinedValue]
TypeError == [type |-> "TypeError"]

\* falsy values among those above: undefined, null, ''
Falsy(v) == v.type \in {"undefined", "null"} \/ v = Str(<<>>)

Lowers == <<"a", "b", "c", "d", "e", "f", "g", "h", "i", "j", "k", "l", "m", "n", "o", "p", "q", "r", "s", "t", "u", "v", "w", "x", "y", "z">>
Uppers == <<"A", "B", "C", "D", "E", "F", "G", "H", "I", "J", "K", "L", "M", "N", "O", "P", "Q", "R", "S", "T", "U", "V", "W", "X", "Y", "Z">>
Whitespace == {" ", "\t"}

IndexIn(c, alphabet) == CHOOSE i \in 1..Len(alphabet) : alphabet[i] = c
toLowerCaseChar(c) ==
    IF \E i \in 1..Len(Uppers) : Uppers[i] = c THEN Lowers[IndexIn(c, Uppers)] ELSE c
toUpperCaseChar(c) ==
    IF \E i \in 1..Len(Lowers) : Lowers[i] = c THEN Uppers[IndexIn(c, Lowers)] ELSE c

\* String.prototype.toLowerCase
toLowerCase(s) == [i \in 1..Len(s) |-> toLowerCaseChar(s[i])]
\* the spellings the table lists next to the lower-case one
UPPER(s) == [i \in 1..Len(s) |-> toUpperCaseChar(s[i])]
Capitalized(s) == [i \in 1..Len(s) |-> IF i = 1 THEN toUpperCaseChar(s[i]) ELSE s[i]]

\* String.prototype.trim
RECURSIVE trim(_)
trim(s) ==
    IF s = <<>> THEN s
    ELSE IF s[1] \in Whitespace THEN trim(Tail(s))
    ELSE IF s[Len(s)] \in Whitespace THEN trim(SubSeq(s, 1, Len(s) - 1))
    ELSE s

\* String.prototype.split(',')
RECURSIVE split(_)
split(s) ==
    IF \A i \in 1..Len(s) : s[i] # ","
    THEN <<s>>
    ELSE LET i == CHOOSE k \in 1..Len(s) : s[k] = "," /\ \A j \in 1..(k - 1) : s[j] # ","
         IN  <<SubSeq(s, 1, i - 1)>> \o split(SubSeq(s, i + 1, Len(s)))

S_admin == <<"a", "d", "m", "i", "n">>
S_administrator == <<"a", "d", "m", "i", "n", "i", "s", "t", "r", "a", "t", "o", "r">>
S_dev == <<"d", "e", "v">>
S_developer == <<"d", "e", "v", "e", "l", "o", "p", "e", "r">>
S_editor == <<"e", "d", "i", "t", "o", "r">>
S_contrib == <<"c", "o", "n", "t", "r", "i", "b">>
S_contributor == <<"c", "o", "n", "t", "r", "i", "b", "u", "t", "o", "r">>
S_viewer == <<"v", "i", "e", "w", "e", "r">>
S_custom == <<"c", "u", "s", "t", "o", "m">>
S_unknown == <<"u", "n", "k", "n", "o", "w", "n">>
S_constructor == <<"c", "o", "n", "s", "t", "r", "u", "c", "t", "o", "r">>
S_toString == <<"t", "o", "S", "t", "r", "i", "n", "g">>
S_valueOf == <<"v", "a", "l", "u", "e", "O", "f">>

\* roleNameMappings: every row is listed lower-case, Capitalized and UPPER-CASE
MappingRows ==
    {<<S_admin, S_administrator>>, <<S_administrator, S_administrator>>,
     <<S_dev, S_developer>>, <<S_developer, S_developer>>,
     <<S_editor, S_editor>>,
     <<S_contrib, S_contributor>>, <<S_contributor, S_contributor>>,
     <<S_viewer, S_viewer>>}
roleNameMappings ==
    UNION {{<<row[1], row[2]>>, <<Capitalized(row[1]), row[2]>>, <<UPPER(row[1]), row[2]>>} :
           row \in MappingRows}

\* roleNameMappings is an object literal: a key it does not own is looked up
\* on Object.prototype
ObjectPrototypeKeys == {S_constructor, S_toString, S_valueOf}

\* roleNameMappings[role]; a role that is not a string is converted to one
\* ('undefined', '42', '[object Object]'), which is no key
Lookup(role) ==
    IF role.type # "string" THEN UndefinedValue
    ELSE IF \E m \in roleNameMappings : m[1] = role.chars
    THEN Str((CHOOSE m \in roleNameMappings : m[1] = role.chars)[2])
    ELSE IF role.chars \in ObjectPrototypeKeys THEN FunctionValue(role.chars)
    ELSE UndefinedValue

rolePriority ==
    <<Str(S_administrator), Str(S_developer), Str(S_editor), Str(S_contributor),
      Str(S_viewer)>>

\* RoleUtils.normalize(role): roleNameMappings[role] || role.toLowerCase()
normalize(role) ==
    IF ~Falsy(Lookup(role)) THEN Lookup(role)
    ELSE IF role.type = "string" THEN Str(toLowerCase(role.chars))
    ELSE TypeError

\* Array.prototype.includes
Includes(list, v) == \E i \in 1..Len(list) : list[i] = v

\* RoleUtils.getHighestPriority(roles)
BadHighest_FirstRole(roles) ==
    IF Len(roles) = 0 THEN UndefinedValue ELSE normalize(roles[1])

getHighestPriority(roles) ==
    LET normalizedRoles == [i \in 1..Len(roles) |-> normalize(roles[i])]
        found == {p \in 1..Len(rolePriority) : Includes(normalizedRoles, rolePriority[p])}
    IN  IF found # {}
        THEN rolePriority[CHOOSE p \in found : \A q \in found : p <= q]
        ELSE IF Len(normalizedRoles) = 0 THEN UndefinedValue
        ELSE normalizedRoles[1]

\* [...new Set(list)]: the first occurrence of every value, in order
RECURSIVE Unique(_)
Unique(list) ==
    IF list = <<>> THEN list
    ELSE LET front == SubSeq(list, 1, Len(list) - 1)
             last == list[Len(list)]
         IN  IF Includes(front, last) THEN Unique(front) ELSE Append(Unique(front), last)

\* the callback of the first map over user.roles (lines 121-127)
NameOf(role) ==
    IF role.type = "string" THEN role
    ELSE IF role.type = "object" /\ role.hasName THEN role.name
    ELSE NullValue

\* what a call ends with when `list` holds the results of normalize
Normalized(list) ==
    IF Includes(list, TypeError) THEN TypeError ELSE Arr(list)

\* RoleUtils.extractFromUser(user): what it returns or throws, and the user
\* object as the call leaves it
BadExtract_InPlace(user) ==
    IF user.type # "object" \/ Falsy(user.roles) \/ user.roles.type # "array"
    THEN [returns |-> Arr(<<>>), user |-> user]
    ELSE LET kept == SelectSeq(user.roles.items, LAMBDA r : r.type = "string")
             names == Unique([i \in 1..Len(kept) |-> normalize(kept[i])])
         IN  [returns |-> Arr(names), user |-> [user EXCEPT !.roles = Arr(names)]]

extractFromUser(user) ==
    IF user.type # "object" \/ Falsy(user.roles)
    THEN [returns |-> Arr(<<>>), user |-> user]
    ELSE IF user.roles.type = "string"
    THEN LET segments == split(user.roles.chars)
             roles == [i \in 1..Len(segments) |-> Str(trim(segments[i]))]
         IN  [returns |-> Normalized([i \in 1..Len(roles) |-> normalize(roles[i])]),
              user |-> user]
    ELSE LET names == [i \in 1..Len(user.roles.items) |-> NameOf(user.roles.items[i])]
             kept == SelectSeq(names, LAMBDA r : r # NullValue /\ r # Str(<<>>))
             extractedRoles == [i \in 1..Len(kept) |-> normalize(kept[i])]
         IN  [returns |-> IF Includes(extractedRoles, TypeError) THEN TypeError
                          ELSE Arr(Unique(extractedRoles)),
              user |-> user]

\* ---- arguments ----
\* the casings of a word: capitals at any of its first CasedLetters letters,
\* and the word in capitals throughout
Casings(w) ==
    {[i \in 1..Len(w) |-> IF i \in up THEN toUpperCaseChar(w[i]) ELSE w[i]] :
         up \in SUBSET (1..(IF Len(w) < CasedLetters THEN Len(w) ELSE CasedLetters))}
        \cup {UPPER(w)}

\* role names: the aliases and canonical names in their casings, names the
\* table does not know, the empty string, blanks, and names of properties
\* every object inherits
RoleStrings ==
    UNION {Casings(row[1]) : row \in MappingRows}
        \cup {S_custom, Capitalized(S_custom), UPPER(S_unknown), <<>>, <<" ", " ", " ">>}
        \cup ObjectPrototypeKeys

\* the roles of the lists handed to getHighestPriority
ListedRoles ==
    {S_viewer, S_administrator, S_editor, S_admin, S_dev, S_contributor, S_unknown, S_custom}

Lists(elements, n) == UNION {[1..k -> elements] : k \in 0..n}

\* a comma-separated string of the segments, each with `pad` on both sides
RECURSIVE Joined(_, _)
Joined(segments, pad) ==
    IF Len(segments) = 1 THEN pad \o segments[1] \o pad
    ELSE pad \o segments[1] \o pad \o <<",">> \o Joined(Tail(segments), pad)

Segments == {S_admin, Capitalized(S_admin), S_editor, S_viewer}
Pads == {<<>>, <<" ", " ">>}
CommaStrings ==
    {Joined(l, pad) : l \in Lists(Segments, MaxRoles) \ {<<>>}, pad \in Pads}

\* the elements of a roles array
RoleEntries ==
    {Str(S_admin), Str(UPPER(S_admin)), Str(S_editor), Str(<<>>),
     RoleObject(Str(S_admin)), RoleObject(Str(<<>>)), RoleObject(NullValue),
     RoleObject(NumberValue), NamelessObject, NullValue}

\* user.roles: absent, null, a comma-separated string, an array
RolesValues ==
    {UndefinedValue, NullValue}
        \cup {Str(c) : c \in CommaStrings}
        \cup {Arr(l) : l \in Lists(RoleEntries, MaxRoles)}

SanityUser(roles) == [type |-> "object", roles |-> roles]

RoleCalls ==
    {[fn |-> "normalize", arg |-> Str(r)] : r \in RoleStrings}
        \cup {[fn |-> "getHighestPriority",
               arg |-> Arr([i \in 1..Len(l) |-> Str(l[i])])] : l \in Lists(ListedRoles, MaxRoles)}
        \cup {[fn |-> "extractFromUser", arg |-> SanityUser(v)] : v \in RolesValues}

\* ---- calls: one of normalize or getHighestPriority, up to MaxRoleCalls of
\* extractFromUser on the same user ----
Normalize ==
    /\ roleCall.fn = "normalize"
    /\ roleResults = <<>>
    /\ roleResults' = Append(roleResults, normalize(roleCall.arg))
    /\ UNCHANGED <<roleCall, outsideRoles>>

\* normalize is called on what the call before returned
NormalizeAgain ==
    /\ roleCall.fn = "normalize"
    /\ Len(roleResults) = 1
    /\ roleResults[1] # TypeError
    /\ roleResults' = Append(roleResults, normalize(roleResults[1]))
    /\ roleCall' = [roleCall EXCEPT !.fn = "normalize(normalize)"]
    /\ UNCHANGED outsideRoles

GetHighestPriority ==
    /\ roleCall.fn = "getHighestPriority"
    /\ roleResults = <<>>
    /\ roleResults' = Append(roleResults, getHighestPriority(roleCall.arg.items))
    /\ UNCHANGED <<roleCall, outsideRoles>>

ExtractFromUser ==
    /\ roleCall.fn = "extractFromUser"
    /\ Len(roleResults) < MaxRoleCalls
    /\ LET call == extractFromUser(roleCall.arg) IN
          /\ roleResults' = Append(roleResults, call.returns)
          /\ roleCall' = [roleCall EXCEPT !.arg = call.user]
    /\ UNCHANGED outsideRoles

RolesIdle ==
    /\ roleCall = [fn |-> "none", arg |-> NullValue]
    /\ roleResults = <<>>

RolesCalled ==
    /\ roleCall \in RoleCalls
    /\ roleResults = <<>>

\* the module has been loaded in some environment; the store, where it is
\* read, holds every value
ConfigShared ==
    /\ env \in Envs
    /\ edge = (IF EdgeConfigRead(env) THEN FullEdge ELSE EmptyEdge)
    /\ edgeRead = "values"
    /\ ConfigLoading

(***************************************************************************)
(*                          The specifications                             *)
(***************************************************************************)
ThrottleNext ==
    \/ throttledAsync
    \/ \E p \in 1..Len(promises), o \in Outcomes : Settle(p, o)
    \/ \E t \in timers : TimerFires(t)
    \/ Tick

ThrottleInit ==
    /\ ThrottleIdle
    /\ BridgeFixed
    /\ HookIdle
    /\ ValidatorIdle
    /\ ConfigIdle
    /\ RolesIdle
    /\ AutoIdle
    /\ ComponentsIdle

ThrottleSpec == ThrottleInit /\ [][ThrottleNext]_vars

BridgeNext == Message

BridgeInit ==
    /\ BridgeConfigured
    /\ ThrottleIdle
    /\ HookIdle
    /\ ValidatorIdle
    /\ ConfigIdle
    /\ RolesIdle
    /\ AutoIdle
    /\ ComponentsIdle

BridgeSpec == BridgeInit /\ [][BridgeNext]_vars

HookNext ==
    \/ validateSession
    \/ \E p \in 1..Len(runs), o \in Outcomes : ValidationSettles(p, o)
    \/ \E u \in Users : Rerender(u)
    \/ clearValidation
    \/ \E t \in timers : TimerFires(t)
    \/ Tick

HookInit ==
    /\ HookMounted
    /\ ThrottleIdle
    /\ BridgeFixed
    /\ ValidatorIdle
    /\ ConfigIdle
    /\ RolesIdle
    /\ AutoIdle
    /\ ComponentsIdle

HookSpec == HookInit /\ [][HookNext]_vars

ValidatorNext ==
    \/ prepareValidation
    \/ validateStagingAccess
    \/ \E r \in Responses : Respond(r)
    \/ NetworkError
    \/ BackoffOver
    \/ Abort

ValidatorInit ==
    /\ ValidatorCalled
    /\ BridgeFixed
    /\ ThrottleIdle
    /\ HookIdle
    /\ ConfigIdle
    /\ RolesIdle
    /\ AutoIdle
    /\ ComponentsIdle

ValidatorSpec == ValidatorInit /\ [][ValidatorNext]_vars

\* the same, with the timers of vercelFetch served: the callback of the
\* abort setTimeout (line 162) and that of the backoff setTimeout (lines
\* 179-181) run once their delay has passed
TimedValidatorSpec ==
    ValidatorInit /\ [][ValidatorNext]_vars /\ WF_vars(Abort) /\ WF_vars(BackoffOver)

ConfigNext ==
    \/ initializeConfig
    \/ getConfig
    \/ getConfigAsync
    \/ resetConfig

ConfigInit ==
    /\ ConfigLoaded
    /\ BridgeFixed
    /\ ThrottleIdle
    /\ HookIdle
    /\ ValidatorIdle
    /\ RolesIdle
    /\ AutoIdle
    /\ ComponentsIdle

ConfigSpec == ConfigInit /\ [][ConfigNext]_vars

\* the config module with a caller that writes to what it was handed
ConsumerNext ==
    \/ ConfigNext
    \/ \E w \in Writes : consumerWrite(w)

ConsumerInit ==
    /\ ConfigShared
    /\ BridgeFixed
    /\ ThrottleIdle
    /\ HookIdle
    /\ ValidatorIdle
    /\ RolesIdle
    /\ AutoIdle
    /\ ComponentsIdle

ConsumerSpec == ConsumerInit /\ [][ConsumerNext]_vars

RolesNext ==
    \/ Normalize
    \/ NormalizeAgain
    \/ GetHighestPriority
    \/ ExtractFromUser

RolesInit ==
    /\ RolesCalled
    /\ BridgeFixed
    /\ ThrottleIdle
    /\ HookIdle
    /\ ValidatorIdle
    /\ ConfigIdle
    /\ AutoIdle
    /\ ComponentsIdle

RolesSpec == RolesInit /\ [][RolesNext]_vars

AutoNext ==
    \/ handleAutoValidation
    \/ \E p \in 1..Len(runs), o \in Outcomes : AttemptEnds(p, o)
    \/ \E t \in timers : AutoTimerFires(t)
    \/ AutoTick

AutoInit ==
    /\ AutoMounted
    /\ HookMounted
    /\ ThrottleIdle
    /\ BridgeFixed
    /\ ValidatorIdle
    /\ ConfigIdle
    /\ RolesIdle
    /\ ComponentsIdle

AutoSpec == AutoInit /\ [][AutoNext]_vars

\* the config module with the components that read from it
ComponentsNext ==
    \/ initializeConfig
    \/ \E c \in Components : componentReads(c)

ComponentsInit ==
    /\ ConfigShared
    /\ ComponentsIdle
    /\ BridgeFixed
    /\ ThrottleIdle
    /\ HookIdle
    /\ ValidatorIdle
    /\ RolesIdle
    /\ AutoIdle

ComponentsSpec == ComponentsInit /\ [][ComponentsNext]_vars


(***************************************************************************)
(*                     Properties of StudioAuthBridge                      *)
(***************************************************************************)
Handled == event \in Events
Trusted == event.origin \in allowedOrigins

\* C1: a message whose origin is not in allowedOrigins gets no reply and leaves
\* the nonce registry as it was, and the origin check is the first thing the
\* handler runs: for such a message it is the only thing, no parse is tried.
C1_UntrustedDropped ==
    [][(event' \in Events)
         => /\ steps' # <<>> /\ Head(steps') = "isValidOrigin"
            /\ (event'.origin \notin allowedOrigins')
                 => /\ posted' = <<>>
                    /\ validNonces' = validNonces
                    /\ steps' = <<"isValidOrigin">>]_vars

\* an untrusted origin has sent a status request carrying a registered nonce
C1_Witness ==
    /\ Handled /\ ~Trusted
    /\ enablePostMessage
    /\ event.data.type = RequestStatus
    /\ event.source # NoSource
    /\ event.data.nonce \in validNonces

\* C2: every reply goes to the window the request came from (event.source),
\* with the request's origin (event.origin) as target origin; at most one
\* reply per request, never a broadcast.
C2_ReplyToSender ==
    /\ Len(posted) <= 1
    /\ \A i \in DOMAIN posted :
          /\ Handled
          /\ posted[i].win = event.source
          /\ posted[i].win # NoSource
          /\ posted[i].targetOrigin = event.origin
          /\ posted[i].targetOrigin \in allowedOrigins

C2_Witness ==
    /\ posted # <<>>
    /\ posted[1].data.type = StatusReply
    /\ Cardinality(allowedOrigins) = 2

\* C3: a status request from origin O that carries nonce n is answered only if
\* n was registered by a register-nonce message that came from O itself.
\* (Stated for the nonces the CSRF check looks at, the non-empty ones.)
C3_NonceBoundToOrigin ==
    (Handled /\ posted # <<>> /\ Truthy(event.data.nonce))
        => <<event.data.nonce, event.origin>> \in registrar

\* C4: a status request from a trusted origin that carries a nonce which is
\* not in the registry gets no reply.
C4_UnknownNonceDiscarded ==
    (/\ Handled /\ Trusted
     /\ event.data.type = RequestStatus
     /\ event.data.nonce # Undefined
     /\ event.data.nonce \notin validNonces)
        => posted = <<>>

\* C5: a well-formed register-nonce message from a trusted origin adds its
\* nonce to the registry exactly when its origin field is the sender's origin;
\* a message handled as a registration is not passed on to handleAuthRequest,
\* and no register-nonce message produces a reply.
C5_Registration ==
    [][(/\ event' \in Events
        /\ event'.origin \in allowedOrigins'
        /\ event'.data.type = RegisterNonce
        /\ IsString(event'.data.nonce)
        /\ IsString(event'.data.origin))
         => /\ posted' = <<>>
            /\ IF event'.data.origin = event'.origin
               THEN /\ validNonces' = validNonces \cup {event'.data.nonce}
                    /\ steps' = <<"isValidOrigin", "handleNonceRegistration">>
               ELSE /\ validNonces' = validNonces]_vars

\* a trusted origin has registered a nonce under its own origin
C5_Witness ==
    /\ Handled /\ Trusted
    /\ event.data.type = RegisterNonce
    /\ event.data.origin = event.origin
    /\ event.data.nonce \in validNonces
    /\ <<event.data.nonce, event.origin>> \in registrar
    /\ posted = <<>>

\* C29: while features.enablePostMessage is false the bridge makes no
\* postMessage call for any inbound message, whatever its origin, shape or
\* nonce.
C29_DisabledSilent == ~enablePostMessage => posted = <<>>

\* with the switch off, a well-formed status request from a trusted origin,
\* with a window to answer and a nonce that passes, has been handled
C29_Witness ==
    /\ ~enablePostMessage
    /\ event # NoEvent
    /\ isValidOrigin(event.origin)
    /\ isPostMessageAuthRequest(event.data)
    /\ Truthy(event.data.nonce)
    /\ NonceCheckPasses(event.data)
    /\ event.source # NoSource
    /\ steps = <<"isValidOrigin", "handleNonceRegistration", "handleAuthRequest">>
    /\ posted = <<>>

(***************************************************************************)
(*                       Properties of useStudioAuth                       *)
(***************************************************************************)
\* C11: any two calls of the hook's validateSession() made less than Delay
\* (2000 ms) apart are collapsed, also across re-renders: they get the same
\* promise, so one invocation of validateSessionInternal (at most one
\* validateStagingAccess request) serves both.
C11_CollapsedAcrossRenders ==
    \A i, j \in 1..Len(calls) :
        (i < j /\ calls[j].at - calls[i].at < Delay)
            => calls[i].promise = calls[j].promise

\* C16: a call of validateSession() made while there is no authenticated user
\* fails with 'No user session found' and leaves isValidating, lastValidation
\* and error as they were; the invocation that failed this way has generated
\* no token and issued no request, and never will.
C16_NoUserFailsLocally ==
    [][/\ (Len(calls') > Len(calls) /\ ~HasSession(currentUser))
            => /\ promises'[calls'[Len(calls')].promise].outcome = "rejected"
               /\ runs'[calls'[Len(calls')].promise].error = NoUserSession
               /\ isValidating' = isValidating
               /\ lastValidation' = lastValidation
               /\ error' = error
               /\ \A p \in 1..Len(runs) :
                     /\ runs'[p].token = runs[p].token
                     /\ runs'[p].request = runs[p].request
       /\ \A p \in 1..Len(runs') :
             runs'[p].error = NoUserSession
                 => ~runs'[p].token /\ ~runs'[p].request]_vars

\* validateSession() was called without a user while an earlier validation,
\* started under a user, was in flight
C16_Witness ==
    /\ calls # <<>>
    /\ calls[Len(calls)].invoked
    /\ runs[calls[Len(calls)].promise].phase = "threw"
    /\ ~HasSession(currentUser)
    /\ isValidating
    /\ \E p \in 1..Len(runs) : runs[p].phase = "network"

(***************************************************************************)
(*                  Properties of validateStagingAccess                    *)
(***************************************************************************)
Completed == outcome.kind # "pending"

Classified(r) ==
    IF r.status = 429
    THEN <<"Rate limit exceeded. Please try again in ",
           IF r.retryAfter # NoHeader THEN r.retryAfter
           ELSE ToString(rateLimitRetryMs \div 1000),
           " seconds.">>
    ELSE IF r.status = 403 THEN <<"Access forbidden. This domain is not authorized.">>
    ELSE <<"Validation failed: ", statusText(r.status)>>

C14_InvalidFormat ==
    /\ (response # NoResponse /\ ok(response) /\ ~ValidationResponseSchema(response.body))
          => outcome = Threw(InvalidFormat)
    /\ outcome.kind = "returned"
          => /\ ok(response)
             /\ ValidationResponseSchema(response.body)
             /\ outcome.result.authorized = response.body.authorized
             /\ outcome.result.role = response.body.role

\* C15: on every platform a request that is waiting for its answer has an
\* abort timer armed, so that an endpoint that never answers ends the
\* invocation with a timeout error.
C15_HardTimeout == vpc = "fetch" => abortTimer # 0

\* what the records must not hold in production
Sensitive == {"sessionToken", "roleNames", "userName", "userEmail"}

\* C30: with NODE_ENV = 'production', no record logged during a validation
\* attempt holds the session token, role names, or the user's name or email.
C30_ProductionLogsRedacted ==
    isProduction => \A i \in 1..Len(logs) : logs[i].holds \cap Sensitive = {}

(***************************************************************************)
(*                    Properties of the config module                      *)
(***************************************************************************)
\* the value of a setting under the precedence remote store > environment >
\* default, given whether each tier supplies it
ByPrecedence(edgeSupplies, edgeValue, envSupplies, envValue, default) ==
    IF edgeSupplies THEN edgeValue ELSE IF envSupplies THEN envValue ELSE default

\* C17: in the configuration buildConfig produces, a setting that more than
\* one tier supplies has the Edge Config value if there is one, else the
\* environment value if there is one, else the compiled default.
C17_Precedence ==
    built.full # NoConfig
        => /\ built.full.urls.staging =
                 ByPrecedence(EdgeConfigRead(env) /\ edge.stagingUrl # Undefined,
                              edge.stagingUrl,
                              env.SANITY_STUDIO_STAGING_URL # Undefined,
                              env.SANITY_STUDIO_STAGING_URL,
                              Defaults0.urls.staging)
           /\ built.full.security.rateLimitRetryMs =
                 ByPrecedence(EdgeConfigRead(env) /\ edge.rateLimitMs # 0,
                              edge.rateLimitMs,
                              env.SANITY_STUDIO_STAGING_RATE_LIMIT_MS # 0,
                              env.SANITY_STUDIO_STAGING_RATE_LIMIT_MS,
                              Defaults0.security.rateLimitRetryMs)
           /\ built.full.features.debugMode =
                 ByPrecedence(EdgeConfigRead(env) /\ edge.feature_debugMode # Undefined,
                              edge.feature_debugMode = "true",
                              TRUE,
                              env.SANITY_STUDIO_DEBUG = "true"
                                  \/ env.NODE_ENV = "development",
                              Defaults0.features.debugMode)

\* a complete configuration object: every section with every field, the
\* strings and lists filled
Complete(v) ==
    /\ v # NoConfig
    /\ DOMAIN v = Sections
    /\ DOMAIN v.urls = {"staging", "development"}
    /\ DOMAIN v.security = {"tokenValidityDays", "rateLimitRetryMs", "allowedOrigins",
                            "cookieName"}
    /\ DOMAIN v.logging = {"provider", "level", "flushInterval"}
    /\ DOMAIN v.features = {"autoValidation", "debugMode", "enablePostMessage", "showToasts"}
    /\ Truthy(v.urls.staging)
    /\ Truthy(v.security.cookieName)
    /\ v.security.allowedOrigins # NoList
    /\ v.security.tokenValidityDays > 0
    /\ v.security.rateLimitRetryMs > 0
    /\ v.features.debugMode \in BOOLEAN

\* C18: whenever getConfig() is called (before the asynchronous build has
\* finished, after it, after resetConfig()) it hands out a complete
\* configuration object, never null; it has no state in which it waits.
C18_GetConfigTotal ==
    returned.by = "getConfig"
        => /\ Complete(returned.value)
           /\ cachedConfig = returned.value \/ configInitialized

\* getConfig() has answered while the asynchronous build was still in flight
C18_Witness ==
    /\ returned.by = "getConfig"
    /\ ~configInitialized
    /\ ~returned.initialized
    /\ cachedConfig = returned.value
    /\ EdgeConfigRead(env)

\* C19: once initialization has completed, every getConfig() call returns the
\* configuration built by buildConfig, also after resetConfig().
C19_FullAfterInit ==
    (returned.by = "getConfig" /\ returned.initialized)
        => returned.value = built.full

\* C21: a write by a consumer to the object getConfig()/getConfigAsync()
\* returned, or to its nested objects and arrays, leaves what getConfig()
\* hands out afterwards (the cached configuration) as it was.
C21_SnapshotImmutable ==
    [][returned'.by = "consumerWrite" => cachedConfig' = cachedConfig]_vars

\* C20: defaults keeps its original content through every run of buildConfig
\* and buildSyncConfig.
C20_DefaultsUntouched == defaults = Defaults0

\* both builders have run in development mode, with Edge Config values and
\* environment overrides applied to every section
C20_Witness ==
    /\ built.full # NoConfig
    /\ built.sync # NoConfig
    /\ env.NODE_ENV = "development"
    /\ Len(built.full.security.allowedOrigins) > Len(Defaults0.security.allowedOrigins)
    /\ built.full.urls.staging # Defaults0.urls.staging
    /\ built.full.features # Defaults0.features
    /\ built.full.logging # Defaults0.logging
    /\ built.sync.urls.staging # Defaults0.urls.staging
    /\ returned.by = "resetConfig"

\* C22: when the read of the Edge Config store fails, buildConfig still
\* completes, the configuration it yields holds the environment value of a
\* setting where there is one and the default otherwise, and getConfig() and
\* getConfigAsync() hand out a complete configuration, never the failure.
C22_EdgeFailureAbsorbed ==
    (EdgeConfigRead(env) /\ edgeRead # "values")
        => /\ configInitialized => Complete(built.full)
           /\ built.full # NoConfig
                 => /\ built.full.urls.staging =
                          (IF env.SANITY_STUDIO_STAGING_URL # Undefined
                           THEN env.SANITY_STUDIO_STAGING_URL
                           ELSE Defaults0.urls.staging)
                    /\ built.full.security.rateLimitRetryMs =
                          (IF env.SANITY_STUDIO_STAGING_RATE_LIMIT_MS # 0
                           THEN env.SANITY_STUDIO_STAGING_RATE_LIMIT_MS
                           ELSE Defaults0.security.rateLimitRetryMs)
                    /\ built.full.security.cookieName =
                          (IF env.SANITY_STUDIO_STAGING_COOKIE_NAME # Undefined
                           THEN env.SANITY_STUDIO_STAGING_COOKIE_NAME
                           ELSE Defaults0.security.cookieName)
                    /\ built.full.features.autoValidation = Defaults0.features.autoValidation
                    /\ \A i \in 1..Len(Defaults0.security.allowedOrigins) :
                          built.full.security.allowedOrigins[i] =
                              Defaults0.security.allowedOrigins[i]
           /\ returned.by \in {"getConfig", "getConfigAsync"} => Complete(returned.value)

\* the read of a store that holds every value has failed, initialization has
\* completed and getConfigAsync() has handed out the configuration built
C22_Witness ==
    /\ EdgeConfigRead(env)
    /\ edgeRead = "getAll rejects"
    /\ edge = FullEdge
    /\ configInitialized
    /\ returned.by = "getConfigAsync"
    /\ returned.value = built.full
    /\ env.SANITY_STUDIO_STAGING_URL = Undefined
    /\ env.SANITY_STUDIO_STAGING_RATE_LIMIT_MS # 0

(***************************************************************************)
(*                        Properties of RoleUtils                          *)
(***************************************************************************)
\* the calls made so far are calls of fn
Called(fn) == roleCall.fn = fn /\ roleResults # <<>>

\* the table has a key spelled exactly like the string
KnownAlias(chars) == \E m \in roleNameMappings : m[1] = chars

\* C23: for every alias or canonical name a of a canonical role r and every
\* casing of a (a string whose lower-case form is a), normalize returns r.
C23_EveryCasingNormalized ==
    \A row \in MappingRows :
        (Called("normalize") /\ toLowerCase(roleCall.arg.chars) = row[1])
            => \A i \in 1..Len(roleResults) : roleResults[i] = Str(row[2])

\* C24: for every string that is not a key of the table, the empty string and
\* blank strings among them, normalize returns a string, the lower-case form
\* of its input, and does not throw.
C24_NormalizeTotal ==
    (Called("normalize") /\ ~KnownAlias(roleCall.arg.chars))
        => \A i \in 1..Len(roleResults) :
               roleResults[i] = Str(toLowerCase(roleCall.arg.chars))

Usable(v) == v.type = "string" /\ v.chars # <<>>

\* the reference extraction of C26
Reference(roles) ==
    IF roles.type \in {"undefined", "null"} THEN Arr(<<>>)
    ELSE IF roles.type = "string"
    THEN LET segments == split(roles.chars)
         IN  Arr([i \in 1..Len(segments) |-> normalize(Str(trim(segments[i])))])
    ELSE LET names == [i \in 1..Len(roles.items) |->
                          IF roles.items[i].type = "object" THEN roles.items[i].name
                          ELSE roles.items[i]]
             valid == SelectSeq(names, Usable)
         IN  Arr(Unique([i \in 1..Len(valid) |-> normalize(valid[i])]))

\* C26: extractFromUser(user) returns the reference extraction for every
\* shape of user.roles: [] when roles is absent or null; the segments of a
\* comma-separated string, trimmed and normalized, in order; for an array
\* the string elements and the names of the object elements, entries without
\* a usable name dropped, normalized, without duplicates, in order of first
\* occurrence.
C26_ReferenceExtraction ==
    Called("extractFromUser")
        => \A i \in 1..Len(roleResults) : roleResults[i] = Reference(roleCall.arg.roles)

\* C27: no role occurs more than once in a list extractFromUser returns, for
\* a comma-separated string as for an array.
C27_Deduplicated ==
    Called("extractFromUser")
        => \A i \in 1..Len(roleResults) :
               roleResults[i].type = "array"
                   => \A j, k \in 1..Len(roleResults[i].items) :
                          roleResults[i].items[j] = roleResults[i].items[k] => j = k

LastInvocation(i) == Cardinality({j \in 1..(i - 1) : calls[j].invoked})

\* what the caller of call i gets: the result of one invocation, once settled
Received(i) == <<calls[i].promise, promises[calls[i].promise].outcome>>

\* C6: a call made less than Delay after the latest invocation started does
\* not invoke func and gets the promise of that invocation: func runs once
\* per window.
C6_OncePerWindow ==
    \A i \in 2..Len(calls) :
        (calls[i].at - promises[LastInvocation(i)].start < Delay)
            => /\ ~calls[i].invoked
               /\ calls[i].promise = LastInvocation(i)

\* C7: on a new instance, the calls made less than Delay after the first call
\* cause one invocation of func (the first call's) and all receive its result.
C7_FirstWindow ==
    \A i \in 1..Len(calls) :
        (calls[i].at - calls[1].at < Delay)
            => /\ calls[i].invoked <=> (i = 1)
               /\ calls[i].promise = 1
               /\ Received(i) = Received(1)

\* three calls in the first window, the last one later than the first, settled
C7_Witness ==
    /\ Len(calls) >= 3
    /\ \A i \in 1..Len(calls) : calls[i].at - calls[1].at < Delay
    /\ calls[Len(calls)].at > calls[1].at
    /\ promises[1].outcome = "fulfilled"
    /\ timers # {}

\* C8: func is never invoked again while the promise of its previous
\* invocation is unsettled.
C8_StrictlySequential ==
    [][(Len(promises') > Len(promises) /\ Len(promises) > 0)
         => promises[Len(promises)].outcome # Pending]_vars

\* C9: the first call, and every call made Delay or more after the latest
\* invocation started, invokes func at once and records its time as the new
\* start; two calls more than Delay apart are served by two invocations.
C9_InvokesWhenNoWindow ==
    /\ \A i \in 1..Len(calls) :
          (i = 1 \/ calls[i].since >= Delay)
              => /\ calls[i].invoked
                 /\ promises[calls[i].promise].start = calls[i].at
    /\ (calls # <<>> /\ calls[Len(calls)].invoked) => lastCall = calls[Len(calls)].at
    /\ \A i, j \in 1..Len(calls) :
          (calls[j].at - calls[i].at > Delay) => calls[i].promise # calls[j].promise

C9_Witness ==
    \E i, j \in 1..Len(calls) :
        /\ calls[j].at - calls[i].at > Delay
        /\ calls[i].invoked /\ calls[j].invoked
        /\ j = i + 1
        /\ Len(promises) = 2

\* C10: when an invocation rejects, every call coalesced into its window gets
\* that rejection, and a call made once Delay has passed since that
\* invocation started invokes func again.
C10_RejectionShared ==
    \A i \in 2..Len(calls) :
        LET p == LastInvocation(i) IN
        promises[p].outcome = "rejected"
            => /\ ~calls[i].invoked => Received(i) = <<p, "rejected">>
               /\ (calls[i].at - promises[p].start >= Delay)
                     => /\ calls[i].invoked
                        /\ calls[i].promise = p + 1

\* a rejection shared by two callers, then a retry after the window
C10_Witness ==
    /\ Len(calls) = 3
    /\ promises[1].outcome = "rejected"
    /\ ~calls[2].invoked /\ calls[2].promise = 1
    /\ calls[3].invoked /\ calls[3].at - promises[1].start >= Delay
    /\ timers # {}

\* C31: the delayed clear scheduled when the promise of an invocation settles
\* sets currentPromise to null only if that promise is still the current one
\* when the clear runs; the promise of a later window stays.
C31_ClearOnlyOwnPromise ==
    [][\A t \in timers :
          (t \notin timers' /\ currentPromise # 0 /\ currentPromise # t.of)
              => currentPromise' = currentPromise]_vars

(***************************************************************************)
(*                   Properties of automatic validation                    *)
(***************************************************************************)
\* C32: with autoValidation on and a logged-in user, the effect does not
\* invoke the validation again after an attempt has failed, however long the
\* attempt took: no invocation starts once an earlier one has failed.
C32_NoRetryAfterFailure ==
    [][Len(runs') > Len(runs)
          => \A p \in 1..Len(runs) : runs[p].error = NoError]_vars

(***************************************************************************)
(*                   Further properties of the bridge                      *)
(***************************************************************************)
\* C33: the bridge posts an auth-status reply only for a request that
\* carries a nonce registered with the bridge before.
C33_ReplyRequiresNonce ==
    (Handled /\ posted # <<>>) => event.data.nonce \in validNonces

(***************************************************************************)
(*               Further properties of validateStagingAccess               *)
(***************************************************************************)
\* C35: a call of validateStagingAccess that omits userRoles still issues
\* the validation request: once the call is under way, fetch has been called.
C35_OmittedRolesStillSent ==
    (userRoles = Undefined /\ vpc # "idle") => attempts >= 1 /\ outcome # Threw(RolesTypeError)

(***************************************************************************)
(*                   Further properties of useStudioAuth                   *)
(***************************************************************************)
InFlight(p) == runs[p].phase = "network"

\* C36: isValidating is true exactly while at least one invocation started
\* through validateSession is still in flight.
C36_ValidatingWhileInFlight ==
    isValidating <=> \E p \in 1..Len(runs) : InFlight(p)

\* run p completes in this step: its request settles, or it throws at once
Completes(p) ==
    /\ runs'[p].phase \in {"done", "threw"}
    /\ p <= Len(runs) => InFlight(p)

\* C37: when a validation completes and leaves none in flight, error is
\* non-null exactly if that validation failed, and lastValidation is its
\* result if it succeeded and is left as it was if it failed.
C37_StateFollowsLastCompleted ==
    [][\A p \in 1..Len(runs') :
          (Completes(p) /\ \A q \in 1..Len(runs') : runs'[q].phase # "network")
              => /\ (error' # NoError) <=> (runs'[p].error # NoError)
                 /\ lastValidation' = IF runs'[p].error # NoError THEN lastValidation ELSE p]_vars

(***************************************************************************)
(*                 Properties of the configuration's readers               *)
(***************************************************************************)
\* C34: once initializeConfig has completed, every component that has read
\* the configuration works with the configuration the module now holds; none
\* keeps the synchronous fallback it read before.
C34_OneSnapshot ==
    configInitialized
        => \A c \in Components : consumed[c] \in {NoConfig, cachedConfig}

\* no value of the remote store goes into buildConfig
NoRemoteValues == ~EdgeConfigRead(env) \/ getMultiple(edge, edgeRead) = EmptyEdge

\* C38: when no remote-store values are applied, buildSyncConfig() and
\* buildConfig() yield the same configuration in every environment.
C38_BuildersAgree ==
    (NoRemoteValues /\ built.full # NoConfig /\ built.sync # NoConfig)
        => built.full = built.sync

(***************************************************************************)
(*                     Further properties of RoleUtils                     *)
(***************************************************************************)
\* C39: normalize is idempotent: for every role string x,
\* normalize(normalize(x)) = normalize(x).
C39_NormalizeIdempotent ==
    roleCall.fn = "normalize(normalize)" => roleResults[2] = roleResults[1]

(***************************************************************************)
(*                        Properties of vercelFetch                        *)
(***************************************************************************)
VercelThrows == {Threw(VercelTimeout), Threw(NetworkFailure), Threw(MaxRetriesExceeded)}

\* what holds of vercelFetch at every moment of a call
VercelFetchSafe ==
    /\ attempts <= maxRetries
    \* an answer below 500 is handed back at once, and nothing else is
    /\ (answer # NoResponse /\ answer.status < 500) => (response = answer /\ vpc = "done")
    /\ response # NoResponse => (response = answer /\ response.status < 500)
    \* without a response the call ends with one of the three errors
    /\ (vpc = "done" /\ response = NoResponse) => outcome \in VercelThrows
    /\ outcome = Threw(MaxRetriesExceeded) => (attempts = maxRetries /\ answer.status >= 500)
    /\ outcome = Threw(NetworkFailure) => attempts = maxRetries
    \* the backoff is entered after a 5xx answer only
    /\ vpc = "sleep" => (answer # NoResponse /\ answer.status >= 500)

\* C40: on Vercel the fetch of a call that reached the request terminates
\* after at most maxRetries = 3 attempts: it hands back the first response
\* whose status is below 500, and otherwise throws the timeout error, the
\* last network error or 'Max retries exceeded'; a further attempt is made
\* only after a 5xx answer (from the backoff) or a network error.
C40_VercelFetchTerminates ==
    /\ []((platform = "vercel" /\ userRoles # Undefined) => VercelFetchSafe)
    /\ [][(platform = "vercel" /\ attempts' > attempts /\ attempts >= 1)
              => \/ vpc = "sleep" /\ answer.status >= 500
                 \/ vpc = "fetch" /\ vpc' = "fetch" /\ attempt' = attempt + 1]_vars
    /\ (platform = "vercel" /\ vpc = "fetch") ~> (vpc = "done")

\* on Vercel three attempts met a 5xx answer and the call threw 'Max retries
\* exceeded'
C40_Witness ==
    /\ platform = "vercel"
    /\ attempts = maxRetries
    /\ attempt = maxRetries
    /\ answer.status >= 500
    /\ response = NoResponse
    /\ outcome = Threw(MaxRetriesExceeded)

====
